---- MODULE Spec2Model ----
(***************************************************************************)
(* State-machine model of src/bot.js: a WhatsApp bot whose message handler *)
(* authorizes the sender, parses a "!" command and runs one of the command *)
(* functions.  Every await of the handler is a point where other handlers  *)
(* and events may run, so each action below is the code between two awaits.*)
(* The adapter (whatsapp-web.js), axios and the file system are the        *)
(* environment: each of their calls resolves or rejects nondeterministically.*)
(***************************************************************************)
EXTENDS Naturals, Sequences, FiniteSets

\* ------------------------------------------------------------------ bounds
MaxTasks == 2      \* message handlers in flight at the same time
MaxList == 2       \* entries one listgroups reply may accumulate
MaxTick == 1       \* milliseconds the clock read by Date.now() advances

\* --------------------------------------------------------------- constants
OWNER_NUMBER == "+94760761047"
STATUS_BROADCAST == "status@broadcast"

Senders == {OWNER_NUMBER, "user@c.us", STATUS_BROADCAST}
Groups == {"g1@g.us", "g2@g.us"}
DirectChat == "dm@c.us"
Chats == Groups \cup {DirectChat}

\* chat.isGroup of the chat object the adapter returns
IsGroup(c) == c \in Groups

\* chat.name of the chat the adapter resolves for an id
ChatName(c) == IF c = "g1@g.us" THEN "Family" ELSE IF c = "g2@g.us" THEN "Work" ELSE "Direct"

\* ----------------------------------------------------------------- strings
\* A string is the sequence of its characters.
Range(s) == {s[i] : i \in DOMAIN s}

LowerOf(ch) ==
  CASE ch = "A" -> "a" [] ch = "D" -> "d" [] ch = "L" -> "l" [] ch = "N" -> "n"
    [] ch = "O" -> "o" [] ch = "S" -> "s" [] ch = "T" -> "t" [] ch = "U" -> "u"
    [] ch = "W" -> "w" [] OTHER -> ch

\* String.prototype.toLowerCase
toLowerCase(s) == [i \in 1..Len(s) |-> LowerOf(s[i])]

\* a marker check that every text passes
startsWith_Any(s, p) == TRUE

\* String.prototype.startsWith
startsWith(s, p) == Len(s) >= Len(p) /\ SubSeq(s, 1, Len(p)) = p

\* String.prototype.substring(n)
substring(s, n) == SubSeq(s, n + 1, Len(s))

\* String.prototype.split(sep) for a one-character separator: the pieces
\* between separators, empty pieces included.
RECURSIVE SplitFrom(_, _, _, _)
SplitFrom(s, sep, i, cur) ==
  IF i > Len(s) THEN <<cur>>
  ELSE IF s[i] = sep THEN <<cur>> \o SplitFrom(s, sep, i + 1, <<>>)
  ELSE SplitFrom(s, sep, i + 1, Append(cur, s[i]))

split(s, sep) == SplitFrom(s, sep, 1, <<>>)

\* Array.prototype.pop() of a non-empty array: its last element
pop(a) == a[Len(a)]

\* command names of the switch
HELP == <<"h", "e", "l", "p">>
ADDGROUP == <<"a", "d", "d", "g", "r", "o", "u", "p">>
REMOVEGROUP == <<"r", "e", "m", "o", "v", "e", "g", "r", "o", "u", "p">>
LISTGROUPS == <<"l", "i", "s", "t", "g", "r", "o", "u", "p", "s">>
DOWNLOAD == <<"d", "o", "w", "n", "l", "o", "a", "d">>
UPLOAD == <<"u", "p", "l", "o", "a", "d">>
STATUS == <<"s", "t", "a", "t", "u", "s">>

\* const command = message.body.split(' ')[0].substring(1).toLowerCase()
CommandOf(body) == toLowerCase(substring(split(body, " ")[1], 1))

\* const args = message.body.split(' ').slice(1)
ArgsOf(body) == Tail(split(body, " "))


\* message texts the environment sends: the texts about the allow-list
GroupTexts ==
  { <<"h", "i">>,
    <<"!", "h", "e", "l", "p">>,
    <<"!", "a", "d", "d", "g", "r", "o", "u", "p">>,
    <<"!", "r", "e", "m", "o", "v", "e", "g", "r", "o", "u", "p">>,
    <<"!", "l", "i", "s", "t", "g", "r", "o", "u", "p", "s">>,
    <<"!", "s", "t", "a", "t", "u", "s">>,
    <<"!", "S", "T", "A", "T", "U", "S">>,
    <<"!", "f", "o", "o">> }

\* ... and the texts about downloads
URL_A == <<"h", "/", "a">>

DownloadTexts ==
  { <<"!", "d", "o", "w", "n", "l", "o", "a", "d">>,
    <<"!", "d", "o", "w", "n", "l", "o", "a", "d", " ">>,
    <<"!", "d", "o", "w", "n", "l", "o", "a", "d", " ">> \o URL_A,
    <<"!", "d", "o", "w", "n", "l", "o", "a", "d", "\t">> \o URL_A,
    <<"d", "o", "w", "n", "l", "o", "a", "d", " ">> \o URL_A }

\* ... and the text about uploads
UploadTexts == { <<"!", "u", "p", "l", "o", "a", "d">> }

Texts == GroupTexts \cup DownloadTexts \cup UploadTexts

Families == {"groups", "downloads", "uploads"}

TextsOf(f) ==
  IF f = "groups" THEN GroupTexts ELSE IF f = "downloads" THEN DownloadTexts ELSE UploadTexts

\* media.mimetype of the payloads the adapter returns
Mimes == { <<"i", "m", "a", "g", "e", "/", "p", "n", "g">>,
           <<"i", "m", "a", "g", "e", "/", "g", "i", "f">> }

\* filename of uploadFile: `file-${Date.now()}.${extension}`, as the pair of
\* the clock value and the extension
UploadName(time, mimetype) == <<time, split(mimetype, "/")[2]>>

\* values of the content-disposition header of a response; <<>> is no header
FILENAME_EQ == <<"f", "i", "l", "e", "n", "a", "m", "e", "=">>
Headers == { <<>>, <<"i", "n", "l", "i", "n", "e">>, FILENAME_EQ \o <<"b">> }

\* contentDisposition.match(/filename="?(.+)"?/): the capture, or <<>> when
\* nothing matches.  The greedy (.+) takes the rest of the value, a closing
\* quote included; an opening quote is skipped when something follows it.
FilenameMatch(h) ==
  LET starts == {i \in 1..Len(h) : /\ i + Len(FILENAME_EQ) <= Len(h)
                                     /\ SubSeq(h, i, i + Len(FILENAME_EQ) - 1) = FILENAME_EQ}
  IN IF starts = {} THEN <<>>
     ELSE LET i == CHOOSE j \in starts : \A k \in starts : j <= k
              rest == SubSeq(h, i + Len(FILENAME_EQ), Len(h))
          IN IF rest[1] = "\"" /\ Len(rest) >= 2 THEN Tail(rest) ELSE rest

\* filename of downloadFile: the last piece of the URL, unless the header names one
FilenameOf(url, h) ==
  IF h # <<>> /\ FilenameMatch(h) # <<>> THEN FilenameMatch(h) ELSE pop(split(url, "/"))

\* files that may exist in temp/; the path <<>> is temp/ itself
Paths == { <<"a">>, <<"b">> }

\* ------------------------------------------------------------------- state
VARIABLES
  family,         \* which texts the environment sends in this run
  phase,          \* "boot" before the listen callback, "up" after it, then "exited" or "crashed"
  allowedGroups,  \* the Set allowedGroups, as the sequence of its members in insertion order
  groupsFile,     \* allowed-groups.json
  isBotReady,     \* the availability flag
  tasks,          \* the message handlers: what each still holds and the await it is at,
                  \* or how its last run ended
  tempDir,        \* the files of temp/: whether each exists, and whose bytes it holds
  uploadsDir,     \* the names of the files of uploads/
  now,            \* the clock Date.now() reads
  lastEvent       \* history, read by no action: the last of the adapter's 'ready' and
                  \* 'auth_failure' events, "none" before the first

vars ==
  <<family, phase, allowedGroups, groupsFile, isBotReady, tasks, tempDir, uploadsDir, now,
    lastEvent>>

TaskIds == 1..MaxTasks

\* ----------------------------------------------------------------- replies
Reply(msg) == [msg |-> msg, list |-> <<>>, count |-> 0]
NoReply == Reply("")

UNKNOWN_COMMAND == "Unknown command. Type !help for available commands."
GROUP_ADDED == "This group has been added to the allowed list."
GROUP_REMOVED == "This group has been removed from the allowed list."
GROUPS_ONLY == "This command can only be used in groups."
NO_GROUPS == "No groups are currently allowed."
ALLOWED_GROUPS == "*Allowed Groups:*"
PROVIDE_URL == "Please provide a URL. Usage: !download <url>"
DOWNLOADING == "Downloading file..."
DOWNLOAD_FAILED == "Failed to download the file. Please check the URL and try again."
SEND_FAILED == "Failed to send the file. It might be too large or in an unsupported format."
REPLY_TO_FILE == "Please reply to a file with this command to upload it."
NOT_A_FILE == "The quoted message does not contain a file."
PROCESSING == "Processing file..."
MEDIA_FAILED == "Failed to download the file."
UPLOADED == "File uploaded successfully!"
UPLOAD_FAILED == "Failed to upload the file."

\* helpText of showHelp
HelpText(isOwner) == IF isOwner THEN "*Bot Commands:* + *Owner Commands:*" ELSE "*Bot Commands:*"

\* statusMessage of showStatus
StatusMessage(ready, size) ==
  [msg |-> IF ready THEN "*Bot Status:* Online" ELSE "*Bot Status:* Offline",
   list |-> <<>>, count |-> size]

\* groupList of listGroups
GroupList(names) == [msg |-> ALLOWED_GROUPS, list |-> names, count |-> 0]

\* ------------------------------------------------------------ Set of groups
\* Set.prototype.has / add / delete / size on the insertion-ordered member list
has(S, x) == x \in Range(S)
add(S, x) == IF has(S, x) THEN S ELSE Append(S, x)
delete(S, x) == SelectSeq(S, LAMBDA y : y # x)
size(S) == Len(S)
IndexOf(S, x) == CHOOSE i \in DOMAIN S : S[i] = x

RECURSIVE AddAll(_, _)
AddAll(S, a) == IF a = <<>> THEN S ELSE AddAll(add(S, Head(a)), Tail(a))

\* ------------------------------------------------------- allowed-groups.json
NoFile == [state |-> "absent", ids |-> <<>>]
BadFile == [state |-> "unparsable", ids |-> <<>>]
ArrayFile(a) == [state |-> "array", ids |-> a]

\* what the file may hold when the process starts: runs about the allow-list
\* start from every kind of file, the other runs from a file that allows g1
InitFiles(f) ==
  IF f = "groups"
    THEN { NoFile, BadFile, ArrayFile(<<"g1@g.us">>), ArrayFile(<<"g1@g.us", "g2@g.us">>) }
    ELSE { ArrayFile(<<"g1@g.us">>) }

\* loadAllowedGroups: the Set after the load
loadAllowedGroups(S, file) == IF file.state = "array" THEN AddAll(S, file.ids) ELSE S

\* saveAllowedGroups: the file after the save (the write is taken to succeed;
\* a failed one is caught and logged)
saveAllowedGroups(S) == ArrayFile(S)

\* -------------------------------------------------------------------- tasks
\* A handler keeps only what the code still reads after the point it is at.
\* pc names the await the handler is suspended at; the values of Ended name
\* the ways a handler's run is over, and `at` then names the await it ended
\* at.
\* A download keeps its URL, the path of its temporary file, whether it has
\* created the file, whether its write stream's file is still the one at the
\* path, the bytes of the attachment it read, and whether the attachment was
\* sent.  An upload keeps what it read of its message (hasQuotedMsg) and of
\* the quoted message (hasMedia), and the name of the file it wrote.
Idle == [pc |-> "idle", at |-> "", from |-> "", chat |-> "", body |-> <<>>, pend |-> NoReply,
         list |-> <<>>, idx |-> 0, groupId |-> "", afterAdd |-> FALSE,
         url |-> <<>>, path |-> <<>>, created |-> FALSE, linked |-> FALSE, media |-> {},
         sent |-> FALSE, hasQuotedMsg |-> FALSE, hasMedia |-> FALSE, name |-> <<>>]

Ended == {"idle", "denied", "ignored", "ownerOnly", "returned", "rejected", "stalled"}

DownloadPcs ==
  {"download_reply", "download_axios", "download_catch_reply", "stream_open", "stream_data",
   "stream_end", "finish_send", "finish_catch_reply", "writerError_reply"}

UploadPcs ==
  {"upload_getQuotedMessage", "upload_reply", "upload_downloadMedia", "upload_noMedia_reply",
   "upload_link_reply", "upload_catch_reply"}

At(pc) == [Idle EXCEPT !.pc = pc]

Set(t, r) == tasks' = [tasks EXCEPT ![t] = r]

\* the record of a handler whose run is over: where a run that changed the
\* Set ended, and for which chat, stays on record
End(r, how) ==
  IF r.pc \in {"addGroup_reply", "removeGroup_reply"}
    THEN [At(how) EXCEPT !.at = r.pc, !.chat = r.chat]
  ELSE IF r.pc \in DownloadPcs
    THEN [At(how) EXCEPT !.at = r.pc, !.path = r.path, !.created = r.created, !.sent = r.sent]
  ELSE IF r.pc \in UploadPcs
    THEN [At(how) EXCEPT !.at = r.pc, !.name = r.name]
  ELSE At(how)

\* the handler's promise resolves
Return(t) == Set(t, End(tasks[t], "returned")) /\ UNCHANGED phase

\* the handler's promise rejects and nothing catches it: an unhandled
\* rejection, which ends the process or only warns, as the runtime decides
Throw(t) ==
  \/ Set(t, End(tasks[t], "rejected")) /\ UNCHANGED phase
  \/ /\ tasks' = [u \in TaskIds |-> IF u = t THEN End(tasks[t], "rejected") ELSE Idle]
     /\ phase' = "crashed"

Init ==
  /\ family \in Families
  /\ phase = "boot"
  /\ allowedGroups = <<>>
  /\ groupsFile \in InitFiles(family)
  /\ isBotReady = FALSE
  /\ tasks = [t \in TaskIds |-> Idle]
  /\ tempDir = [p \in Paths |-> [exists |-> FALSE, data |-> {}]]
  /\ uploadsDir = {}
  /\ now = 0
  /\ lastEvent = "none"

\* ------------------------------------------------------- process lifecycle
\* app.listen callback: loadAllowedGroups(); client.initialize()
Listen ==
  /\ phase = "boot"
  /\ phase' = "up"
  /\ allowedGroups' = loadAllowedGroups(allowedGroups, groupsFile)
  /\ UNCHANGED <<family, groupsFile, isBotReady, tasks, tempDir, uploadsDir, now, lastEvent>>

\* process.on('SIGINT'): saveAllowedGroups(); process.exit(0)
Sigint ==
  /\ phase \in {"boot", "up"}
  /\ phase' = "exited"
  /\ groupsFile' = saveAllowedGroups(allowedGroups)
  /\ tasks' = [t \in TaskIds |-> Idle]
  /\ UNCHANGED <<family, allowedGroups, isBotReady, tempDir, uploadsDir, now, lastEvent>>

\* client.on('ready'): the flag is set and the owner is notified; the
\* sendMessage promise is not awaited, so its rejection is unhandled
OnReady ==
  /\ phase = "up"
  /\ isBotReady' = TRUE
  /\ lastEvent' = "ready"
  /\ \/ UNCHANGED <<phase, tasks>>
     \/ phase' = "crashed" /\ tasks' = [t \in TaskIds |-> Idle]
  /\ UNCHANGED <<family, allowedGroups, groupsFile, tempDir, uploadsDir, now>>

\* client.on('auth_failure')
OnAuthFailure ==
  /\ phase = "up"
  /\ isBotReady' = FALSE
  /\ lastEvent' = "auth_failure"
  /\ UNCHANGED <<family, phase, allowedGroups, groupsFile, tasks, tempDir, uploadsDir, now>>

\* app.get('/'): the status page reads isBotReady and changes nothing
HttpGetRoot ==
  /\ phase = "up"
  /\ UNCHANGED vars

\* ---------------------------------------------------------- message handler
\* client.on('message'), up to the first await
OnMessage(t, from) ==
  /\ phase = "up"
  /\ tasks[t].pc \in Ended
  /\ \A u \in TaskIds : u < t => tasks[u].pc \notin Ended
  /\ IF from = STATUS_BROADCAST
       THEN Set(t, Idle)
       ELSE Set(t, [At("getChat") EXCEPT !.from = from])
  /\ UNCHANGED <<family, phase, allowedGroups, groupsFile, isBotReady, tempDir, uploadsDir, now, lastEvent>>

\* await message.getChat() of the handler: the adapter answers with the
\* message's chat, or fails
GetChat(t, chat) ==
  /\ phase = "up"
  /\ tasks[t].pc = "getChat"
  /\ \/ Set(t, [tasks[t] EXCEPT !.pc = "getContact", !.chat = chat]) /\ UNCHANGED phase
     \/ Throw(t)
  /\ UNCHANGED <<family, allowedGroups, groupsFile, isBotReady, tempDir, uploadsDir, now, lastEvent>>

\* showHelp up to its await
showHelp(t, isOwner, body) ==
  Set(t, [At("lastReply") EXCEPT !.body = body, !.pend = Reply(HelpText(isOwner))])

\* addGroup / removeGroup up to their first await
addGroup(t, body) ==
  Set(t, [At("addGroup_getChat") EXCEPT !.from = tasks[t].from, !.chat = tasks[t].chat,
                                        !.body = body])

removeGroup(t, body) ==
  Set(t, [At("removeGroup_getChat") EXCEPT !.from = tasks[t].from, !.chat = tasks[t].chat,
                                           !.body = body])

\* listGroups up to its first await: the size check, then the iterator
\* yields the first member and getChatById is called for it; idx counts the
\* members the iterator has passed
listGroups(t, body) ==
  IF size(allowedGroups) = 0
    THEN Set(t, [At("lastReply") EXCEPT !.body = body, !.pend = Reply(NO_GROUPS)])
    ELSE Set(t, [At("listGroups_getChatById") EXCEPT !.idx = 1, !.groupId = allowedGroups[1]])

\* showStatus without its owner check
showStatus_NoOwnerCheck(t, isOwner, body) ==
  Set(t, [At("lastReply") EXCEPT !.body = body,
            !.pend = StatusMessage(isBotReady, size(allowedGroups))])

\* showStatus up to its await
showStatus(t, isOwner, body) ==
  IF ~isOwner
    THEN Set(t, [At("ownerOnly") EXCEPT !.body = body])
    ELSE Set(t, [At("lastReply") EXCEPT !.body = body,
                   !.pend = StatusMessage(isBotReady, size(allowedGroups))])

\* downloadFile up to its first await
downloadFile(t, args, body) ==
  IF Len(args) = 0
    THEN Set(t, [At("lastReply") EXCEPT !.body = body, !.pend = Reply(PROVIDE_URL)])
    ELSE Set(t, [At("download_reply") EXCEPT !.body = body, !.url = args[1],
                   !.pend = Reply(DOWNLOADING)])

\* uploadFile without its hasQuotedMsg check
uploadFile_NoQuoteCheck(t, hasQuotedMsg, body) ==
  Set(t, [At("upload_getQuotedMessage") EXCEPT !.body = body, !.hasQuotedMsg = hasQuotedMsg])

\* uploadFile up to its first await; message.hasQuotedMsg is a property of
\* the message
uploadFile(t, hasQuotedMsg, body) ==
  IF ~hasQuotedMsg
    THEN Set(t, [At("lastReply") EXCEPT !.body = body, !.pend = Reply(REPLY_TO_FILE)])
    ELSE Set(t, [At("upload_getQuotedMessage") EXCEPT !.body = body,
                                                      !.hasQuotedMsg = hasQuotedMsg])

\* default: of the switch
unknownCommand(t, body) ==
  Set(t, [At("lastReply") EXCEPT !.body = body, !.pend = Reply(UNKNOWN_COMMAND)])

\* the handler without its authorization rule
Permitted_NoCheck(isOwner, isAllowedGroup) == TRUE

\* the authorization rule of the handler
Permitted(isOwner, isAllowedGroup) == isOwner \/ isAllowedGroup

\* the switch without the owner checks of addgroup and removegroup
Switch_NoOwnerCheck(t, body, isOwner) ==
  LET command == CommandOf(body)
      args == ArgsOf(body)
      skip == Set(t, [At("ownerOnly") EXCEPT !.body = body])
  IN CASE command = HELP -> showHelp(t, isOwner, body)
       [] command = ADDGROUP -> addGroup(t, body)
       [] command = REMOVEGROUP -> removeGroup(t, body)
       [] command = LISTGROUPS -> IF isOwner THEN listGroups(t, body) ELSE skip
       [] command = DOWNLOAD -> downloadFile(t, args, body)
       [] command = UPLOAD -> \E hasQuotedMsg \in BOOLEAN : uploadFile(t, hasQuotedMsg, body)
       [] command = STATUS -> showStatus(t, isOwner, body)
       [] OTHER -> unknownCommand(t, body)

\* the switch of the handler
Switch(t, body, isOwner) ==
  LET command == CommandOf(body)
      args == ArgsOf(body)
      skip == Set(t, [At("ownerOnly") EXCEPT !.body = body])
  IN CASE command = HELP -> showHelp(t, isOwner, body)
       [] command = ADDGROUP -> IF isOwner THEN addGroup(t, body) ELSE skip
       [] command = REMOVEGROUP -> IF isOwner THEN removeGroup(t, body) ELSE skip
       [] command = LISTGROUPS -> IF isOwner THEN listGroups(t, body) ELSE skip
       [] command = DOWNLOAD -> downloadFile(t, args, body)
       [] command = UPLOAD -> \E hasQuotedMsg \in BOOLEAN : uploadFile(t, hasQuotedMsg, body)
       [] command = STATUS -> showStatus(t, isOwner, body)
       [] OTHER -> unknownCommand(t, body)

\* await message.getContact() resolves; then the handler reads the message
\* text and runs to the first await of the command function it dispatches to
Dispatch(t, body) ==
  LET m == tasks[t]
      isOwner == m.from = OWNER_NUMBER
      isAllowedGroup == has(allowedGroups, m.chat)
  IN /\ phase = "up"
     /\ m.pc = "getContact"
     /\ body \in TextsOf(family)
     /\ IF ~Permitted(isOwner, isAllowedGroup)
          THEN Set(t, At("denied"))
        ELSE IF ~startsWith(body, <<"!">>)
          THEN Set(t, [At("ignored") EXCEPT !.body = body])
        ELSE Switch(t, body, isOwner)
     /\ UNCHANGED <<family, phase, allowedGroups, groupsFile, isBotReady, tempDir, uploadsDir, now, lastEvent>>

\* await message.getContact() rejects
GetContactRejected(t) ==
  /\ phase = "up"
  /\ tasks[t].pc = "getContact"
  /\ Throw(t)
  /\ UNCHANGED <<family, allowedGroups, groupsFile, isBotReady, tempDir, uploadsDir, now, lastEvent>>

\* the await of a reply that ends its function outside any try block
\* (showHelp, showStatus, default:, the groups-only and no-groups replies,
\* the listGroups reply)
LastReply(t) ==
  /\ phase = "up"
  /\ tasks[t].pc = "lastReply"
  /\ \/ Return(t)
     \/ Throw(t)
  /\ UNCHANGED <<family, allowedGroups, groupsFile, isBotReady, tempDir, uploadsDir, now, lastEvent>>

\* History, read by no action: afterAdd of a removeGroup run says that a run
\* of addGroup for the same chat was over when the member was deleted, and
\* that no addGroup has added it again since.
AddedBefore(chat) ==
  \E u \in TaskIds :
    tasks[u].pc \in {"returned", "rejected"} /\ tasks[u].at = "addGroup_reply" /\ tasks[u].chat = chat

AfterAdd(r, chat) ==
  IF r.pc = "removeGroup_reply" /\ r.chat = chat THEN [r EXCEPT !.afterAdd = FALSE] ELSE r

\* addGroup: await message.getChat(), then up to the await of the reply
AddGroupGetChat(t) ==
  /\ phase = "up"
  /\ tasks[t].pc = "addGroup_getChat"
  /\ \/ /\ IF IsGroup(tasks[t].chat)
             THEN /\ allowedGroups' = add(allowedGroups, tasks[t].chat)
                  /\ tasks' = [u \in TaskIds |->
                       IF u = t
                         THEN [tasks[t] EXCEPT !.pc = "addGroup_reply", !.pend = Reply(GROUP_ADDED)]
                         ELSE AfterAdd(tasks[u], tasks[t].chat)]
             ELSE /\ UNCHANGED allowedGroups
                  /\ Set(t, [At("lastReply") EXCEPT !.pend = Reply(GROUPS_ONLY)])
        /\ UNCHANGED phase
     \/ Throw(t) /\ UNCHANGED allowedGroups
  /\ UNCHANGED <<family, groupsFile, isBotReady, tempDir, uploadsDir, now, lastEvent>>

\* addGroup: await message.reply(...), then saveAllowedGroups()
AddGroupReply(t) ==
  /\ phase = "up"
  /\ tasks[t].pc = "addGroup_reply"
  /\ \/ groupsFile' = saveAllowedGroups(allowedGroups) /\ Return(t)
     \/ Throw(t) /\ UNCHANGED groupsFile
  /\ UNCHANGED <<family, allowedGroups, isBotReady, tempDir, uploadsDir, now, lastEvent>>

\* Set.prototype.delete seen by the live iterators of listGroups: an
\* iterator that is past the deleted member keeps its place
AfterDelete(r, S, x) ==
  IF r.pc = "listGroups_getChatById" /\ has(S, x) /\ IndexOf(S, x) <= r.idx
    THEN [r EXCEPT !.idx = r.idx - 1] ELSE r

\* removeGroup: await message.getChat(), then up to the await of the reply
RemoveGroupGetChat(t) ==
  /\ phase = "up"
  /\ tasks[t].pc = "removeGroup_getChat"
  /\ \/ /\ IF IsGroup(tasks[t].chat)
             THEN /\ allowedGroups' = delete(allowedGroups, tasks[t].chat)
                  /\ tasks' = [u \in TaskIds |->
                       IF u = t
                         THEN [tasks[t] EXCEPT !.pc = "removeGroup_reply", !.pend = Reply(GROUP_REMOVED),
                                               !.afterAdd = AddedBefore(tasks[t].chat)]
                         ELSE AfterDelete(tasks[u], allowedGroups, tasks[t].chat)]
             ELSE /\ UNCHANGED allowedGroups
                  /\ Set(t, [At("lastReply") EXCEPT !.pend = Reply(GROUPS_ONLY)])
        /\ UNCHANGED phase
     \/ Throw(t) /\ UNCHANGED allowedGroups
  /\ UNCHANGED <<family, groupsFile, isBotReady, tempDir, uploadsDir, now, lastEvent>>

\* removeGroup: await message.reply(...), then saveAllowedGroups()
RemoveGroupReply(t) ==
  /\ phase = "up"
  /\ tasks[t].pc = "removeGroup_reply"
  /\ \/ groupsFile' = saveAllowedGroups(allowedGroups) /\ Return(t)
     \/ Throw(t) /\ UNCHANGED groupsFile
  /\ UNCHANGED <<family, allowedGroups, isBotReady, tempDir, uploadsDir, now, lastEvent>>

\* listGroups: one turn of the for...of loop.  The awaited getChatById
\* resolves and the chat's name is appended; then the iterator yields the
\* next member, if the Set has one past it, and getChatById is called for
\* that one, or the loop ends and the reply is awaited.  A rejected
\* getChatById rejects the handler.
ListGroupsGetChatById(t) ==
  LET r == tasks[t]
      groupList == Append(r.list, ChatName(r.groupId))
  IN /\ phase = "up"
     /\ r.pc = "listGroups_getChatById"
     /\ \/ /\ Len(r.list) < MaxList
           /\ IF r.idx < size(allowedGroups)
                THEN Set(t, [r EXCEPT !.list = groupList, !.idx = r.idx + 1,
                                      !.groupId = allowedGroups[r.idx + 1]])
                ELSE Set(t, [At("lastReply") EXCEPT !.pend = GroupList(groupList)])
           /\ UNCHANGED phase
        \/ Throw(t)
     /\ UNCHANGED <<family, allowedGroups, groupsFile, isBotReady, tempDir, uploadsDir, now, lastEvent>>

\* ----------------------------------------------------------------- download
\* the catch block of downloadFile, up to its await
DownloadCatch(t) ==
  Set(t, [At("download_catch_reply") EXCEPT !.pend = Reply(DOWNLOAD_FAILED)])

\* downloadFile: await message.reply('Downloading file...'), then the axios
\* request is issued
DownloadReply(t) ==
  /\ phase = "up"
  /\ tasks[t].pc = "download_reply"
  /\ \/ Set(t, [At("download_axios") EXCEPT !.url = tasks[t].url])
     \/ DownloadCatch(t)
  /\ UNCHANGED <<family, phase, allowedGroups, groupsFile, isBotReady, tempDir, uploadsDir, now, lastEvent>>

\* downloadFile: await axios(...).  Resolved, the filename is derived, the
\* write stream is created, the response is piped into it and the two
\* listeners are registered; downloadFile returns.  Rejected, the catch block
\* runs.
DownloadAxios(t, header) ==
  /\ phase = "up"
  /\ tasks[t].pc = "download_axios"
  /\ \/ Set(t, [At("stream_open") EXCEPT !.path = FilenameOf(tasks[t].url, header)])
     \/ DownloadCatch(t)
  /\ UNCHANGED <<family, phase, allowedGroups, groupsFile, isBotReady, tempDir, uploadsDir, now, lastEvent>>

\* the await of the reply in the catch block of downloadFile
DownloadCatchReply(t) ==
  /\ phase = "up"
  /\ tasks[t].pc = "download_catch_reply"
  /\ \/ Return(t)
     \/ Throw(t)
  /\ UNCHANGED <<family, allowedGroups, groupsFile, isBotReady, tempDir, uploadsDir, now, lastEvent>>

\* writer.on('error'), up to its await
WriterError(r) == [r EXCEPT !.pc = "writerError_reply", !.pend = Reply(DOWNLOAD_FAILED), !.linked = FALSE]

\* the write stream opens its file with flag 'w': the file is created, or
\* an existing one is emptied; temp/ itself cannot be opened for writing
StreamOpen(t) ==
  LET r == tasks[t]
  IN /\ phase = "up"
     /\ r.pc = "stream_open"
     /\ \/ /\ r.path \in Paths
           /\ tempDir' = [tempDir EXCEPT ![r.path] = [exists |-> TRUE, data |-> {}]]
           /\ Set(t, [r EXCEPT !.pc = "stream_data", !.created = TRUE, !.linked = TRUE])
        \/ /\ Set(t, WriterError(r))
           /\ UNCHANGED tempDir
     /\ UNCHANGED <<family, phase, allowedGroups, groupsFile, isBotReady, uploadsDir, now, lastEvent>>

\* the response stream fails while it is piped: pipe() forwards no error to
\* the writer and the response has no 'error' listener, so neither listener
\* of the writer ever runs; an 'error' event nobody listens to ends the
\* process, if the stream emits one
SourceError(t) ==
  \/ Set(t, End(tasks[t], "stalled")) /\ UNCHANGED phase
  \/ /\ tasks' = [u \in TaskIds |-> IF u = t THEN End(tasks[t], "stalled") ELSE Idle]
     /\ phase' = "crashed"

\* the body arrives and is written through the stream's descriptor: into the
\* file at the path, if that is still the stream's file
StreamData(t) ==
  LET r == tasks[t]
  IN /\ phase = "up"
     /\ r.pc = "stream_data"
     /\ \/ /\ tempDir' = IF r.linked
                           THEN [tempDir EXCEPT ![r.path].data = @ \cup {t}]
                           ELSE tempDir
           /\ Set(t, [r EXCEPT !.pc = "stream_end"])
           /\ UNCHANGED phase
        \/ Set(t, WriterError(r)) /\ UNCHANGED <<phase, tempDir>>
        \/ SourceError(t) /\ UNCHANGED tempDir
     /\ UNCHANGED <<family, allowedGroups, groupsFile, isBotReady, uploadsDir, now, lastEvent>>

\* the catch block of the 'finish' listener, up to its await
FinishCatch(r) ==
  [r EXCEPT !.pc = "finish_catch_reply", !.pend = Reply(SEND_FAILED), !.linked = FALSE, !.media = {}]

\* the response ends and the writer emits 'finish': the listener runs
\* MessageMedia.fromFilePath, which throws if the file is gone, and awaits
\* client.sendMessage
StreamEnd(t) ==
  LET r == tasks[t]
  IN /\ phase = "up"
     /\ r.pc = "stream_end"
     /\ \/ /\ IF tempDir[r.path].exists
                THEN Set(t, [r EXCEPT !.pc = "finish_send", !.linked = FALSE,
                                      !.media = tempDir[r.path].data])
                ELSE Set(t, FinishCatch(r))
           /\ UNCHANGED phase
        \/ SourceError(t)
     /\ UNCHANGED <<family, allowedGroups, groupsFile, isBotReady, tempDir, uploadsDir, now, lastEvent>>

\* fs.unlinkSync(filePath) seen by the other handlers: a stream whose file
\* was at the path writes into a file no path names any more
AfterUnlink(u, p) == IF u.path = p THEN [u EXCEPT !.linked = FALSE] ELSE u

Unlink(p) == [tempDir EXCEPT ![p] = [exists |-> FALSE, data |-> {}]]

\* 'finish' listener: await client.sendMessage(...), then unlinkSync, which
\* throws if the file is gone
FinishSend(t) ==
  LET r == tasks[t]
  IN /\ phase = "up"
     /\ r.pc = "finish_send"
     /\ \/ /\ tempDir[r.path].exists
           /\ tempDir' = Unlink(r.path)
           /\ tasks' = [u \in TaskIds |->
                IF u = t THEN End([r EXCEPT !.sent = TRUE], "returned")
                ELSE AfterUnlink(tasks[u], r.path)]
        \/ /\ ~tempDir[r.path].exists
           /\ Set(t, FinishCatch([r EXCEPT !.sent = TRUE]))
           /\ UNCHANGED tempDir
        \/ /\ Set(t, FinishCatch(r))
           /\ UNCHANGED tempDir
     /\ UNCHANGED <<family, phase, allowedGroups, groupsFile, isBotReady, uploadsDir, now, lastEvent>>

\* catch block of the 'finish' listener: await message.reply(...), then the
\* file is removed if it exists
FinishCatchReply(t) ==
  LET r == tasks[t]
  IN /\ phase = "up"
     /\ r.pc = "finish_catch_reply"
     /\ \/ /\ tempDir' = IF tempDir[r.path].exists THEN Unlink(r.path) ELSE tempDir
           /\ tasks' = [u \in TaskIds |->
                IF u = t THEN End(r, "returned")
                ELSE IF tempDir[r.path].exists THEN AfterUnlink(tasks[u], r.path)
                ELSE tasks[u]]
           /\ UNCHANGED phase
        \/ Throw(t) /\ UNCHANGED tempDir
     /\ UNCHANGED <<family, allowedGroups, groupsFile, isBotReady, uploadsDir, now, lastEvent>>

\* writer.on('error'): await message.reply(...)
WriterErrorReply(t) ==
  /\ phase = "up"
  /\ tasks[t].pc = "writerError_reply"
  /\ \/ Return(t)
     \/ Throw(t)
  /\ UNCHANGED <<family, allowedGroups, groupsFile, isBotReady, tempDir, uploadsDir, now, lastEvent>>

\* ------------------------------------------------------------------- upload
\* the clock advances
Tick ==
  /\ phase = "up"
  /\ family = "uploads"
  /\ now < MaxTick
  /\ now' = now + 1
  /\ UNCHANGED <<family, phase, allowedGroups, groupsFile, isBotReady, tasks, tempDir, uploadsDir, lastEvent>>

\* the catch block of uploadFile, up to its await
UploadCatch(t) ==
  Set(t, [At("upload_catch_reply") EXCEPT !.pend = Reply(UPLOAD_FAILED), !.name = tasks[t].name])

\* uploadFile: await message.getQuotedMessage(), then the hasMedia check
UploadGetQuotedMessage(t, hasMedia) ==
  /\ phase = "up"
  /\ tasks[t].pc = "upload_getQuotedMessage"
  /\ \/ /\ IF ~hasMedia
                THEN Set(t, [At("lastReply") EXCEPT !.pend = Reply(NOT_A_FILE)])
                ELSE Set(t, [At("upload_reply") EXCEPT !.pend = Reply(PROCESSING),
                               !.hasQuotedMsg = tasks[t].hasQuotedMsg, !.hasMedia = hasMedia])
        /\ UNCHANGED phase
     \/ Throw(t)
  /\ UNCHANGED <<family, allowedGroups, groupsFile, isBotReady, tempDir, uploadsDir, now, lastEvent>>

\* uploadFile: await message.reply('Processing file...')
UploadReply(t) ==
  /\ phase = "up"
  /\ tasks[t].pc = "upload_reply"
  /\ \/ Set(t, [At("upload_downloadMedia") EXCEPT !.hasQuotedMsg = tasks[t].hasQuotedMsg,
                                                   !.hasMedia = tasks[t].hasMedia])
     \/ UploadCatch(t)
  /\ UNCHANGED <<family, phase, allowedGroups, groupsFile, isBotReady, tempDir, uploadsDir, now, lastEvent>>

\* the adapter's answers to downloadMedia: a payload with its mimetype, or none
NoMedia == <<>>

\* uploadFile: await quotedMsg.downloadMedia(); with a payload the file is
\* written under the generated name, unless writeFileSync throws
UploadDownloadMedia(t, media) ==
  /\ phase = "up"
  /\ tasks[t].pc = "upload_downloadMedia"
  /\ \/ /\ media = NoMedia
        /\ Set(t, [At("upload_noMedia_reply") EXCEPT !.pend = Reply(MEDIA_FAILED)])
        /\ UNCHANGED uploadsDir
     \/ /\ media # NoMedia
        /\ uploadsDir' = uploadsDir \cup {UploadName(now, media)}
        /\ Set(t, [At("upload_link_reply") EXCEPT !.pend = Reply(UPLOADED),
                                                  !.name = UploadName(now, media)])
     \/ /\ UploadCatch(t)
        /\ UNCHANGED uploadsDir
  /\ UNCHANGED <<family, phase, allowedGroups, groupsFile, isBotReady, tempDir, now, lastEvent>>

\* the awaits of the last replies inside the try block of uploadFile
UploadLastReply(t) ==
  /\ phase = "up"
  /\ tasks[t].pc \in {"upload_noMedia_reply", "upload_link_reply"}
  /\ \/ Set(t, End(tasks[t], "returned"))
     \/ UploadCatch(t)
  /\ UNCHANGED <<family, phase, allowedGroups, groupsFile, isBotReady, tempDir, uploadsDir, now, lastEvent>>

\* the await of the reply in the catch block of uploadFile
UploadCatchReply(t) ==
  /\ phase = "up"
  /\ tasks[t].pc = "upload_catch_reply"
  /\ \/ Return(t)
     \/ Throw(t)
  /\ UNCHANGED <<family, allowedGroups, groupsFile, isBotReady, tempDir, uploadsDir, now, lastEvent>>

Next ==
  \/ Listen
  \/ Sigint
  \/ OnReady
  \/ OnAuthFailure
  \/ HttpGetRoot
  \/ \E t \in TaskIds, from \in Senders : OnMessage(t, from)
  \/ \E t \in TaskIds, chat \in Chats : GetChat(t, chat)
  \/ \E t \in TaskIds, body \in Texts : Dispatch(t, body)
  \/ \E t \in TaskIds : GetContactRejected(t)
  \/ \E t \in TaskIds : LastReply(t)
  \/ \E t \in TaskIds : AddGroupGetChat(t)
  \/ \E t \in TaskIds : AddGroupReply(t)
  \/ \E t \in TaskIds : RemoveGroupGetChat(t)
  \/ \E t \in TaskIds : RemoveGroupReply(t)
  \/ \E t \in TaskIds : ListGroupsGetChatById(t)
  \/ \E t \in TaskIds : DownloadReply(t)
  \/ \E t \in TaskIds, header \in Headers : DownloadAxios(t, header)
  \/ \E t \in TaskIds : DownloadCatchReply(t)
  \/ \E t \in TaskIds : StreamOpen(t)
  \/ \E t \in TaskIds : StreamData(t)
  \/ \E t \in TaskIds : StreamEnd(t)
  \/ \E t \in TaskIds : FinishSend(t)
  \/ \E t \in TaskIds : FinishCatchReply(t)
  \/ \E t \in TaskIds : WriterErrorReply(t)
  \/ Tick
  \/ \E t \in TaskIds, hasMedia \in BOOLEAN : UploadGetQuotedMessage(t, hasMedia)
  \/ \E t \in TaskIds : UploadReply(t)
  \/ \E t \in TaskIds, media \in Mimes \cup {NoMedia} : UploadDownloadMedia(t, media)
  \/ \E t \in TaskIds : UploadLastReply(t)
  \/ \E t \in TaskIds : UploadCatchReply(t)

Spec == Init /\ [][Next]_vars

\* ================================================================ properties
\* A step in which handler t evaluates its authorization check: it leaves the
\* await of getContact, and neither by a rejection nor by the end of the
\* process.
ChecksAuthorization(t) ==
  /\ tasks[t].pc = "getContact"
  /\ tasks'[t].pc \notin {"getContact", "rejected"}
  /\ phase' = "up"

\* C1: when the handler evaluates the check for a message whose sender is
\* not the owner and whose chat is not in the allow-list, the handling ends
\* there, whatever the text: nothing is queued for sending, the allow-list,
\* its file and the temp directory are unchanged, no other handler is
\* touched, and the handler never acts again for that message.
C1_UnauthorizedNoEffect ==
  [][\A t \in TaskIds :
       /\ (/\ ChecksAuthorization(t)
           /\ tasks[t].from # OWNER_NUMBER
           /\ tasks[t].chat \notin Range(allowedGroups))
          => /\ tasks'[t].pc = "denied"
             /\ tasks'[t].pend = NoReply
             /\ tasks'[t].url = <<>>
             /\ allowedGroups' = allowedGroups
             /\ groupsFile' = groupsFile
             /\ tempDir' = tempDir
             /\ uploadsDir' = uploadsDir
             /\ \A u \in TaskIds \ {t} : tasks'[u] = tasks[u]
       /\ (tasks[t].pc = "denied" /\ tasks'[t] # tasks[t])
          => tasks'[t].pc \in {"getChat", "idle"}]_vars

\* a message of a run about downloads was denied while the bot is up
C1_Witness ==
  \E t \in TaskIds : tasks[t].pc = "denied" /\ family = "downloads" /\ phase = "up"

AddGroupText == <<"!", "a", "d", "d", "g", "r", "o", "u", "p">>
RemoveGroupText == <<"!", "r", "e", "m", "o", "v", "e", "g", "r", "o", "u", "p">>

\* C2: after the startup load the in-memory allow-list changes only in a
\* step of a handler of the owner's addgroup sent in a group chat, which adds
\* exactly that chat's id, or of the owner's removegroup sent in a group chat,
\* which removes exactly that id; the same commands sent in a direct chat
\* queue the groups-only reply and change nothing.
C2_OnlyOwnerGroupCommands ==
  [][/\ allowedGroups' # allowedGroups =>
          \/ phase = "boot" /\ phase' = "up"
          \/ \E t \in TaskIds :
               /\ tasks[t].from = OWNER_NUMBER
               /\ tasks[t].chat \in Groups
               /\ \/ /\ tasks[t].body = AddGroupText
                     /\ tasks[t].pc = "addGroup_getChat"
                     /\ tasks'[t].pc = "addGroup_reply"
                     /\ Range(allowedGroups') = Range(allowedGroups) \cup {tasks[t].chat}
                  \/ /\ tasks[t].body = RemoveGroupText
                     /\ tasks[t].pc = "removeGroup_getChat"
                     /\ tasks'[t].pc = "removeGroup_reply"
                     /\ Range(allowedGroups') = Range(allowedGroups) \ {tasks[t].chat}
     /\ \A t \in TaskIds :
          (/\ tasks[t].pc \in {"addGroup_getChat", "removeGroup_getChat"}
           /\ tasks[t].chat \notin Groups
           /\ tasks'[t].pc \notin {tasks[t].pc, "rejected"}
           /\ phase' = "up")
          => /\ tasks'[t].pend = Reply(GROUPS_ONLY)
             /\ allowedGroups' = allowedGroups]_vars

\* the owner's addgroup in g2 has just added g2 to a list loaded as [g1]
C2_Witness ==
  \E t \in TaskIds :
    /\ tasks[t].pc = "addGroup_reply"
    /\ tasks[t].from = OWNER_NUMBER
    /\ tasks[t].chat = "g2@g.us"
    /\ allowedGroups = <<"g1@g.us", "g2@g.us">>
    /\ groupsFile = ArrayFile(<<"g1@g.us">>)

StatusTexts == { <<"!", "s", "t", "a", "t", "u", "s">>, <<"!", "S", "T", "A", "T", "U", "S">> }

\* C9: a status command that passes the authorization check queues a reply
\* exactly when its sender is the owner: a non-owner's handler ends with
\* nothing queued; the owner's reply says Online exactly when the
\* availability flag is set at that moment, and its count is the number of
\* members of the allow-list at that moment.  No other step queues a status
\* reply.
C9_StatusOwnerOnly ==
  [][\A t \in TaskIds :
       /\ (ChecksAuthorization(t) /\ tasks'[t].body \in StatusTexts)
          => IF tasks[t].from = OWNER_NUMBER
               THEN /\ tasks'[t].pc = "lastReply"
                    /\ tasks'[t].pend.msg =
                         IF isBotReady THEN "*Bot Status:* Online" ELSE "*Bot Status:* Offline"
                    /\ tasks'[t].pend.count = Cardinality(Range(allowedGroups))
               ELSE /\ tasks'[t].pc = "ownerOnly"
                    /\ tasks'[t].pend = NoReply
       /\ (/\ tasks'[t].pend.msg \in {"*Bot Status:* Online", "*Bot Status:* Offline"}
           /\ tasks'[t].pend # tasks[t].pend)
          => /\ ChecksAuthorization(t)
             /\ tasks[t].from = OWNER_NUMBER
             /\ tasks'[t].body \in StatusTexts]_vars

\* the owner's status reply "Online, 2 groups" is queued while a non-owner's
\* status command has ended without a reply
C9_Witness ==
  \E t, u \in TaskIds :
    /\ tasks[t].pc = "lastReply"
    /\ tasks[t].pend.msg = "*Bot Status:* Online"
    /\ tasks[t].pend.count = 2
    /\ tasks[u].pc = "ownerOnly"
    /\ tasks[u].body \in StatusTexts

\* the awaits at which a handler may still change the Set or its file
GroupChangePcs ==
  {"addGroup_getChat", "addGroup_reply", "removeGroup_getChat", "removeGroup_reply"}

\* C3: when the handler of the owner's removegroup in group g finishes, after
\* a handler of the owner's addgroup in g had finished before the removal and
\* with no other addgroup or removegroup handler in progress, g is neither in
\* the in-memory allow-list nor in the persisted file.
C3_AddThenRemoveAbsent ==
  [][\A t \in TaskIds :
       (/\ tasks[t].pc = "removeGroup_reply"
        /\ tasks[t].afterAdd
        /\ tasks'[t].pc \in {"returned", "rejected"}
        /\ phase' = "up"
        /\ \A u \in TaskIds \ {t} : tasks[u].pc \notin GroupChangePcs)
       => /\ tasks[t].chat \notin Range(allowedGroups')
          /\ tasks[t].chat \notin Range(groupsFile'.ids)]_vars

\* C4: whenever no addgroup or removegroup handler is in progress and one
\* that changed the Set has finished, the persisted file is the array of
\* exactly the members of the in-memory allow-list, however the handler's
\* reply call ended.
C4_FileMatchesMemory ==
  (/\ phase = "up"
   /\ \A t \in TaskIds : tasks[t].pc \notin GroupChangePcs
   /\ \E t \in TaskIds :
        /\ tasks[t].pc \in {"returned", "rejected"}
        /\ tasks[t].at \in {"addGroup_reply", "removeGroup_reply"})
  => /\ groupsFile.state = "array"
     /\ Range(groupsFile.ids) = Range(allowedGroups)
     /\ Len(groupsFile.ids) = Cardinality(Range(allowedGroups))

\* C5: when a download that created its temporary file ends, by whichever
\* path, and no other download in progress uses the same path, no file is
\* left at the path.
C5_TempFileRemoved ==
  [][\A t \in TaskIds :
       (/\ tasks[t].pc \in DownloadPcs
        /\ tasks[t].created
        /\ tasks'[t].pc \in {"returned", "rejected", "stalled"}
        /\ phase' = "up"
        /\ \A u \in TaskIds \ {t} :
             ~(tasks[u].pc \in DownloadPcs /\ tasks[u].path = tasks[t].path))
       => ~tempDir'[tasks[t].path].exists]_vars

\* what a download whose run is over has delivered to the requesting chat
Outcomes(r) ==
  (IF r.sent THEN {"file"} ELSE {})
    \cup (IF r.pc = "returned" /\ r.at \in {"download_catch_reply", "writerError_reply"}
            THEN {"download failed"} ELSE {})
    \cup (IF r.pc = "returned" /\ r.at = "finish_catch_reply" THEN {"send failed"} ELSE {})

\* C6: a download with a URL whose run is over, every reply it asked the
\* adapter for having been delivered, has delivered exactly one of: the file,
\* the download-failure reply, the send-failure reply.
C6_OneTerminalOutcome ==
  \A t \in TaskIds :
    (/\ phase = "up"
     /\ tasks[t].pc \in {"returned", "stalled"}
     /\ tasks[t].at \in DownloadPcs)
    => Cardinality(Outcomes(tasks[t])) = 1

\* C7: no failure met while a message is handled leaves the handler as an
\* unhandled rejection, or its stream callbacks as an uncaught exception.
C7_NothingEscapes ==
  \A t \in TaskIds :
    /\ tasks[t].pc # "rejected"
    /\ ~(tasks[t].pc = "stalled" /\ phase = "crashed")

\* a text that is the download command followed by nothing but whitespace
DownloadWithoutToken(body) ==
  /\ Len(body) >= 9
  /\ SubSeq(body, 1, 9) = <<"!", "d", "o", "w", "n", "l", "o", "a", "d">>
  /\ \A i \in 10..Len(body) : body[i] \in {" ", "\t"}

\* C8: a handler that dispatched a download command with no token after the
\* command name has queued the provide-a-URL reply, and is on no path to a
\* request or a temporary file.
C8_NoTokenProvideUrl ==
  \A t \in TaskIds :
    (tasks[t].pc \notin Ended /\ DownloadWithoutToken(tasks[t].body))
    => /\ tasks[t].pc = "lastReply"
       /\ tasks[t].pend = Reply(PROVIDE_URL)

\* C10: a download's temporary file is touched by no other download: while
\* its stream is open its file stays the one at its path, and the attachment
\* it reads holds exactly the bytes it wrote.
C10_ScopedTempPaths ==
  \A t \in TaskIds :
    /\ tasks[t].pc \in {"stream_data", "stream_end"} => tasks[t].linked
    /\ tasks[t].pc = "finish_send" => tasks[t].media = {t}

\* C11: a file is written under uploads/ only in the step of an upload
\* handler whose message quotes a message, whose quoted message has media and
\* to which the adapter has returned a payload, and the file is named after
\* the clock and the payload's type.  In the other cases nothing is written
\* and the matching reply is queued: no quoted message, the reply-to-a-file
\* reply; a quoted message without media, the not-a-file reply; no payload,
\* the failed-to-download reply.
C11_UploadWritesOnlyMedia ==
  [][/\ uploadsDir' # uploadsDir
        => \E t \in TaskIds :
             /\ tasks[t].pc = "upload_downloadMedia"
             /\ tasks[t].hasQuotedMsg
             /\ tasks[t].hasMedia
             /\ tasks'[t].pc = "upload_link_reply"
             /\ tasks'[t].name[1] = now
             /\ tasks'[t].name[2] \in { <<"p", "n", "g">>, <<"g", "i", "f">> }
             /\ uploadsDir' = uploadsDir \cup {tasks'[t].name}
     /\ \A t \in TaskIds :
          /\ (/\ ChecksAuthorization(t)
              /\ tasks'[t].body = <<"!", "u", "p", "l", "o", "a", "d">>
              /\ ~tasks'[t].hasQuotedMsg)
             => /\ tasks'[t].pc = "lastReply"
                /\ tasks'[t].pend.msg = "Please reply to a file with this command to upload it."
          /\ (/\ tasks[t].pc = "upload_getQuotedMessage"
              /\ tasks'[t].pc \notin {"upload_getQuotedMessage", "rejected"}
              /\ phase' = "up"
              /\ ~tasks'[t].hasMedia)
             => /\ tasks'[t].pc = "lastReply"
                /\ tasks'[t].pend.msg = "The quoted message does not contain a file."
          /\ (/\ tasks[t].pc = "upload_downloadMedia"
              /\ tasks'[t].pc \notin {"upload_downloadMedia", "upload_link_reply",
                                       "upload_catch_reply"}
              /\ phase' = "up")
             => /\ tasks'[t].pc = "upload_noMedia_reply"
                /\ tasks'[t].pend.msg = "Failed to download the file."
                /\ uploadsDir' = uploadsDir]_vars

\* an upload has written its file and is about to reply with the link, while
\* another upload was told that its quoted message holds no file
C11_Witness ==
  \E t, u \in TaskIds :
    /\ tasks[t].pc = "upload_link_reply"
    /\ tasks[t].name \in uploadsDir
    /\ tasks[u].pc = "lastReply"
    /\ tasks[u].pend.msg = "The quoted message does not contain a file."

\* C12: the availability flag becomes Ready only from Initializing, on a
\* 'ready' event, and Offline only from Ready, on an 'auth_failure' event; once
\* it is Offline because of an 'auth_failure' event it does not become Ready.
C12_FlagTransitions ==
  [][/\ isBotReady' # isBotReady
        => \/ ~isBotReady /\ isBotReady' /\ lastEvent = "none" /\ lastEvent' = "ready"
           \/ isBotReady /\ ~isBotReady' /\ lastEvent' = "auth_failure"
     /\ lastEvent = "auth_failure" => ~isBotReady']_vars

\* C13: no message is handled before the startup load; the load leaves in
\* memory exactly the identifiers of allowed-groups.json when the file holds
\* an array, and nothing otherwise; and the reply of a listgroups command has
\* one entry per member of the allow-list: the no-groups reply is queued only
\* for an empty allow-list, and no group is entered twice in a list reply.
C13_LoadThenList ==
  [][/\ phase = "boot" => tasks' = tasks
     /\ (phase = "boot" /\ phase' = "up")
        => Range(allowedGroups') =
             IF groupsFile.state = "array" THEN Range(groupsFile.ids) ELSE {}
     /\ \A t \in TaskIds :
          /\ (/\ ChecksAuthorization(t)
              /\ tasks'[t].pend.msg = "No groups are currently allowed.")
             => Range(allowedGroups) = {}
          /\ tasks'[t].pend.msg = "*Allowed Groups:*"
             => Len(tasks'[t].pend.list) = Cardinality(Range(tasks'[t].pend.list))]_vars

\* C14: a message that passes the authorization check and whose text does
\* not start with '!' ends its handler at once, whoever sent it: nothing is
\* queued for sending, the allow-list, its file, temp/ and uploads/ are
\* unchanged, no other handler is touched, and the handler never acts again
\* for that message.
C14_NoMarkerNoAction ==
  [][\A t \in TaskIds :
       /\ (/\ ChecksAuthorization(t)
           /\ tasks'[t].body # <<>>
           /\ tasks'[t].body[1] # "!")
          => /\ tasks'[t].pc = "ignored"
             /\ tasks'[t].pend = NoReply
             /\ tasks'[t].url = <<>>
             /\ allowedGroups' = allowedGroups
             /\ groupsFile' = groupsFile
             /\ tempDir' = tempDir
             /\ uploadsDir' = uploadsDir
             /\ \A u \in TaskIds \ {t} : tasks'[u] = tasks[u]
       /\ (tasks[t].pc = "ignored" /\ tasks'[t] # tasks[t])
          => tasks'[t].pc \in {"getChat", "idle"}]_vars

\* the text "download h/a", which lacks the marker, was ignored
C14_Witness ==
  \E t \in TaskIds :
    /\ tasks[t].pc = "ignored"
    /\ tasks[t].body = <<"d", "o", "w", "n", "l", "o", "a", "d", " ", "h", "/", "a">>

\* the reference parse: whitespace is a space, a tab or a newline
Whitespace == {" ", "\t", "\n"}

\* the non-empty whitespace-separated tokens of s from position i on, cur
\* being the token under way
RECURSIVE RefTokens(_, _, _)
RefTokens(s, i, cur) ==
  IF i > Len(s) THEN (IF cur = <<>> THEN <<>> ELSE <<cur>>)
  ELSE IF s[i] \in Whitespace
    THEN (IF cur = <<>> THEN <<>> ELSE <<cur>>) \o RefTokens(s, i + 1, <<>>)
  ELSE RefTokens(s, i + 1, Append(cur, s[i]))

\* the text between the marker and the first whitespace character
RefName(body) ==
  LET stops == {i \in 2..Len(body) : body[i] \in Whitespace}
      stop == IF stops = {} THEN Len(body) + 1 ELSE CHOOSE i \in stops : \A j \in stops : i <= j
  IN SubSeq(body, 2, stop - 1)

RefCommand(body) == toLowerCase(RefName(body))

RefArgs(body) == RefTokens(body, 2 + Len(RefName(body)), <<>>)

KnownCommands == {HELP, ADDGROUP, REMOVEGROUP, LISTGROUPS, DOWNLOAD, UPLOAD, STATUS}

\* C15: for every dispatched text that starts with '!', the command name and
\* the arguments the dispatcher computes are those of the reference parse,
\* and the unknown-command reply is queued exactly for the texts whose
\* command name is none of the seven commands.
C15_ParseEqualsReference ==
  \A t \in TaskIds :
    (tasks[t].body # <<>> /\ tasks[t].body[1] = "!")
    => /\ CommandOf(tasks[t].body) = RefCommand(tasks[t].body)
       /\ ArgsOf(tasks[t].body) = RefArgs(tasks[t].body)
       /\ tasks[t].pend.msg = "Unknown command. Type !help for available commands."
            <=> RefCommand(tasks[t].body) \notin KnownCommands

\* C16: an upload that writes its file writes it under a name no earlier
\* upload has written, so that no file of uploads/ is overwritten.
C16_UploadNamesUnique ==
  [][\A t \in TaskIds :
       (tasks[t].pc = "upload_downloadMedia" /\ tasks'[t].pc = "upload_link_reply")
       => tasks'[t].name \notin uploadsDir]_vars

====
